---------------------------- MODULE Spec2Model ----------------------------
(***************************************************************************)
(* State-machine model of the expense tracker (src/expense.py): the        *)
(* in-memory collection self.expenses, the persisted JSON file, and one    *)
(* action per menu handler of ExpenseTracker.run.                          *)
(*                                                                         *)
(* Amounts are kept in cents (hundredths) and amount inputs in thousandths,*)
(* so that round(amount, 2) is a real conversion.  A date/description      *)
(* string is a TLA+ string; the file is a flat sequence of text tokens     *)
(* (the values printed by json.dump in key order), parsed back by JsonLoad.*)
(*                                                                         *)
(* last, net, startedEmpty and persistedAtLoad are history variables: they *)
(* record what a handler read, printed and raised, and count its effects;  *)
(* no handler reads them.                                                  *)
(***************************************************************************)
EXTENDS Integers, Sequences, FiniteSets, TLC

VARIABLES
    disk,          \* the persisted file: [kind, body]
    expenses,      \* self.expenses when it is a list
    shape,         \* type of self.expenses: "list", or the non-list JSON value loaded
    pc,            \* "off": no process; "menu": run() awaits a choice;
                   \* "done": a handler (or the constructor) has just returned
    last,          \* the most recent handler call: inputs read, messages, exception
    net,           \* in this process: the add_expense calls that appended minus
                   \* the delete_expense calls that removed a record
    startedEmpty,  \* the store was an empty list when this process entered run()
    persistedAtLoad, \* number of records the file held when this process loaded
    faults         \* I/O errors injected so far

vars == <<disk, expenses, shape, pc, last, net, startedEmpty, persistedAtLoad, faults>>

-----------------------------------------------------------------------------
(* Bounds of the model *)

\* add_expense is not offered once the collection holds MaxLen records
MaxLen == 2

\* at most MaxFaults I/O errors (open or write failures) in a behaviour
MaxFaults == 1

-----------------------------------------------------------------------------
(* Inputs *)

\* self.categories (code -> label); two of the eight codes are exercised
categories == [c \in {"1", "2"} |-> IF c = "1" THEN "Food" ELSE "Transportation"]

\* what the user may type at a category prompt: two valid codes, one invalid
CategoryInputs == {"1", "2", "9"}

\* the clock's date, datetime.now().strftime("%Y-%m-%d")
Today == "2024-02-01"

\* text typed at a date prompt: blank, a well-formed date, a malformed one
DateInputs == {"", "2024-01-05", "05/01/2024"}

\* datetime.strptime(date_str, "%Y-%m-%d") succeeds
ParsesAsDate(s) == s = "2024-01-05"

\* the value get_valid_date returns for an input it accepts
get_valid_date(s) == IF s = "" THEN Today ELSE s

\* inputs on which get_valid_date leaves its loop
AcceptedDate(s) == s = "" \/ ParsesAsDate(s)

\* Python's str <= str on the date strings of the model (lexicographic)
DateRank(s) == IF s = "2024-01-05" THEN 1 ELSE 2

StrLeq(a, b) == DateRank(a) <= DateRank(b)

\* date.strftime("%Y-%m") of a stored date
YearMonth(s) == IF s = "2024-01-05" THEN "2024-01" ELSE "2024-02"

\* Python's str order on the year-month keys of the model
MonthRank(k) == IF k = "2024-01" THEN 1 ELSE 2

\* text typed at an amount prompt: a non-number, a negative number, zero, a
\* positive number below half a cent, and a whole unit (the texts "nan" and
\* "inf", which float() also parses, are not among the inputs of the model)
AmountInputs == {"abc", "-1", "0", "0.004", "1"}

\* float(text) does not raise ValueError
IsFloatText(s) == s \in {"-1", "0", "0.004", "1"}

\* float(text), in thousandths
Milli(s) ==
    IF s = "-1" THEN -1000
    ELSE IF s = "0.004" THEN 4
    ELSE IF s = "1" THEN 1000
    ELSE 0

\* round(amount, 2): thousandths to cents (no input is a tie x.xx5)
Round2(milli) ==
    IF milli % 10 < 5 THEN milli \div 10 ELSE (milli \div 10) + 1

\* inputs on which get_valid_amount leaves its loop: float() parses and
\* the `amount <= 0` test does not `continue`
AcceptedAmount(s) == IsFloatText(s) /\ ~(Milli(s) <= 0)

\* the value get_valid_amount returns for an input it accepts
get_valid_amount(s) == Round2(Milli(s))

\* text typed at "Enter a brief description"
DescInputs == {" lunch "}

\* str.strip()
Strip(s) == IF s = " lunch " THEN "lunch" ELSE s

\* text typed at an "expense number" prompt: num = FALSE is text int()
\* rejects, otherwise val is the number typed, 0 .. MaxLen+1
IndexInputs ==
    {[num |-> FALSE, val |-> 0]} \cup
    {[num |-> TRUE, val |-> v] : v \in 0..(MaxLen + 1)}

\* text typed at the prompt that follows the field number in edit_expense
\* ("" also when no such prompt is shown)
EditEntries == DateInputs \cup AmountInputs \cup DescInputs \cup CategoryInputs

\* text typed at "field number to edit"
FieldInputs == {"", "1", "2", "3", "4", "5", "Cancel"}

\* str.lower() on the field / confirmation inputs of the model
Lower(s) == IF s = "Cancel" THEN "cancel" ELSE IF s = "Y" THEN "y" ELSE s

ConfirmInputs == {"", "y", "Y", "n"}

FilterChoices == {"", "1", "2", "3"}

\* outcome of opening and writing the file in save_data
SaveOutcomes == {"ok", "open_failed", "write_failed"}

\* outcome of opening the file in load_data
LoadOutcomes == {"ok", "ioerror"}

-----------------------------------------------------------------------------
(* Lists *)

\* a variant of list.append that inserts at the head: self.expenses.insert(0, x)
ListAppend_AtFront(l, x) == <<x>> \o l

\* list.append
ListAppend(l, x) == Append(l, x)

\* position (1-based) that Python's l[idx] addresses, negative idx wrapping
PyPos(l, idx) == IF idx < 0 THEN Len(l) + idx + 1 ELSE idx + 1

\* a variant of del l[idx] that is off by one: del l[idx + 1] where it exists
ListDel_OffByOne(l, idx) ==
    LET p == PyPos(l, idx)
        q == IF p < Len(l) THEN p + 1 ELSE p
    IN  [j \in 1..(Len(l) - 1) |-> IF j < q THEN l[j] ELSE l[j + 1]]

\* del l[idx]
ListDel(l, idx) ==
    LET p == PyPos(l, idx)
    IN  [j \in 1..(Len(l) - 1) |-> IF j < p THEN l[j] ELSE l[j + 1]]

\* a variant of the range test without its lower bound: idx < len(...)
IndexInRange_NoLowerBound(idx, n) == idx < n

\* `0 <= idx < len(self.expenses)` of edit_expense and delete_expense
IndexInRange(idx, n) == 0 <= idx /\ idx < n

\* sum(expense['amount'] for expense in l)
RECURSIVE SumAmounts(_)
SumAmounts(l) ==
    IF l = <<>> THEN 0 ELSE l[1].amount + SumAmounts(Tail(l))

-----------------------------------------------------------------------------
(* The JSON file *)

\* repr() of a float holding c cents, as json.dump prints it
FloatRepr(c) ==
    LET a    == IF c < 0 THEN -c ELSE c
        frac == a % 100
        ftxt == IF frac % 10 = 0 THEN ToString(frac \div 10)
                ELSE IF frac < 10 THEN "0" \o ToString(frac)
                ELSE ToString(frac)
    IN  (IF c < 0 THEN "-" ELSE "") \o ToString(a \div 100) \o "." \o ftxt

\* the amounts a file of the model can hold
FileAmounts == 0..100

\* float() of a number token of the file
ParseFloat(s) == CHOOSE c \in FileAmounts : FloatRepr(c) = s

\* json.dump(self.expenses, file, indent=4): the value tokens, record by
\* record, in key order date, amount, description, category
RECURSIVE JsonDump(_)
JsonDump(l) ==
    IF l = <<>> THEN <<>>
    ELSE <<l[1].date, FloatRepr(l[1].amount), l[1].description, l[1].category>>
         \o JsonDump(Tail(l))

\* json.load of a file json.dump wrote
RECURSIVE JsonLoad(_)
JsonLoad(b) ==
    IF Len(b) < 4 THEN <<>>
    ELSE <<[date |-> b[1], amount |-> ParseFloat(b[2]),
            description |-> b[3], category |-> b[4]]>>
         \o JsonLoad(SubSeq(b, 5, Len(b)))

NoFile == [kind |-> "missing", body |-> <<>>]

\* a file holding the list l
ListFile(l) == [kind |-> "list", body |-> JsonDump(l)]

\* the records a file holds (none unless it parses as a list)
DiskRecords(d) == IF d.kind = "list" THEN JsonLoad(d.body) ELSE <<>>

\* the files a behaviour may start with: no file, text that is not JSON,
\* bytes that are not text, JSON that is not a list (an object, null),
\* and a saved list of two records
InitialFiles ==
    { NoFile,
      [kind |-> "malformed", body |-> <<>>],
      [kind |-> "binary", body |-> <<>>],
      [kind |-> "object", body |-> <<>>],
      [kind |-> "null", body |-> <<>>],
      ListFile(<<[date |-> "2024-01-05", amount |-> 100,
                  description |-> "lunch", category |-> "Food"],
                 [date |-> "2024-02-01", amount |-> 100,
                  description |-> "", category |-> "Transportation"]>>) }

\* a variant of save_data that opens the file with mode 'a': the new text
\* follows the old, which no longer parses
save_data_AppendMode(d, l, io) ==
    IF io = "ok"
    THEN IF d.kind = "missing" THEN ListFile(l)
         ELSE [kind |-> "malformed", body |-> <<>>]
    ELSE IF io = "open_failed" THEN d
    ELSE [kind |-> "malformed", body |-> <<>>]

\* the file after save_data: written, untouched when open() fails, and
\* truncated to partial text when the write fails after open() truncated it
save_data(d, l, io) ==
    IF io = "ok" THEN ListFile(l)
    ELSE IF io = "open_failed" THEN d
    ELSE [kind |-> "malformed", body |-> <<>>]

-----------------------------------------------------------------------------
(* Reports *)

\* view_expenses(arg): `expenses if expenses else self.expenses`, with None
\* and the empty list both falsy
Displayed(arg) == IF arg # <<>> THEN arg ELSE expenses

\* the header line view_expenses prints, or its "nothing to show" message
ViewMsg(arg) ==
    IF Displayed(arg) = <<>> THEN "No expenses found."
    ELSE IF arg # <<>> THEN "=== Filtered Expenses ===" ELSE "=== Expenses ==="

\* [e for e in self.expenses if start_date <= e['date'] <= end_date]
FilterByDate(l, start_date, end_date) ==
    SelectSeq(l, LAMBDA e : StrLeq(start_date, e.date) /\ StrLeq(e.date, end_date))

\* [e for e in self.expenses if e['category'] == category]
FilterByCategory(l, category) == SelectSeq(l, LAMBDA e : e.category = category)

\* the keys of monthly_data
MonthKeys(l) == {YearMonth(l[i].date) : i \in 1..Len(l)}

\* sorted(monthly_data.items()): ascending by key
RECURSIVE SortedMonths(_, _)
SortedMonths(l, S) ==
    IF S = {} THEN <<>>
    ELSE LET m == CHOOSE x \in S : \A y \in S : MonthRank(x) <= MonthRank(y)
         IN  <<<<m, SumAmounts(SelectSeq(l, LAMBDA e : YearMonth(e.date) = m))>>>>
             \o SortedMonths(l, S \ {m})

\* the keys of category_data in insertion (first occurrence) order
RECURSIVE FirstSeen(_)
FirstSeen(l) ==
    IF l = <<>> THEN <<>>
    ELSE LET r == FirstSeen(SubSeq(l, 1, Len(l) - 1))
             c == l[Len(l)].category
         IN  IF \E i \in 1..Len(r) : r[i] = c THEN r ELSE Append(r, c)

\* category_data.items()
CategoryData(l) ==
    LET ks == FirstSeen(l)
    IN  [i \in 1..Len(ks) |-> <<ks[i], SumAmounts(FilterByCategory(l, ks[i]))>>]

\* sorted(items, key=lambda x: x[1], reverse=True): stable, descending
RECURSIVE SortDesc(_)
SortDesc(s) ==
    IF s = <<>> THEN <<>>
    ELSE LET i == CHOOSE i \in 1..Len(s) :
                      /\ \A j \in 1..Len(s) : s[j][2] <= s[i][2]
                      /\ \A j \in 1..(i - 1) : s[j][2] < s[i][2]
         IN  <<s[i]>> \o SortDesc([j \in 1..(Len(s) - 1) |->
                                     IF j < i THEN s[j] ELSE s[j + 1]])

\* the rows category_summary prints when total # 0: category, amount and
\* the bar length int(((amount / total) * 100) / 5)
CategoryRows(l, total) ==
    LET s == SortDesc(CategoryData(l))
    IN  [i \in 1..Len(s) |-> <<s[i][1], s[i][2], (s[i][2] * 20) \div total>>]

-----------------------------------------------------------------------------
(* The process *)

\* the record of a handler call before the handler has done anything; io is
\* the outcome of the handler's open() of the file ("none": not opened)
NoCall ==
    [op |-> "none", read |-> FALSE, idx |-> 0, field |-> "", replaced |-> "",
     newval |-> "", confirm |-> "", io |-> "none", msg |-> "", raised |-> "",
     shown |-> <<>>, summary |-> <<>>, a |-> "", b |-> "", src |-> ""]

Call(op) == [NoCall EXCEPT !.op = op]

\* `self.expenses` is truthy: a non-empty list, or a non-empty JSON object
Truthy == shape = "object" \/ (shape = "list" /\ expenses # <<>>)

Init ==
    /\ disk \in InitialFiles
    /\ expenses = <<>>
    /\ shape = "list"
    /\ pc = "off"
    /\ last = NoCall
    /\ net = 0
    /\ startedEmpty = FALSE
    /\ persistedAtLoad = 0
    /\ faults = 0

\* the handler returns having changed nothing
Stay(c) ==
    /\ last' = c
    /\ pc' = "done"
    /\ UNCHANGED <<disk, expenses, shape, net, startedEmpty,
                   persistedAtLoad, faults>>

\* an exception no handler catches leaves run() and ends the process
Crash(c, exc) ==
    /\ last' = [c EXCEPT !.raised = exc]
    /\ pc' = "off"
    /\ expenses' = <<>>
    /\ shape' = "list"
    /\ net' = 0
    /\ startedEmpty' = FALSE
    /\ persistedAtLoad' = 0
    /\ UNCHANGED <<disk, faults>>

\* an I/O error may be injected while fewer than MaxFaults have been
FaultAllowed(io) == io = "ok" \/ faults < MaxFaults

Count(io) == IF io = "ok" THEN faults ELSE faults + 1

\* load_data: what self.expenses becomes, the warning printed, the
\* exception that escapes
load_data(d, io) ==
    LET fresh == [expenses |-> <<>>, shape |-> "list", msg |-> "", raised |-> ""]
        warn  == [fresh EXCEPT
                    !.msg = "Warning: Could not load expense data. Starting fresh."]
    IN  IF d.kind = "missing" THEN fresh
        ELSE IF io = "ioerror" THEN warn
        ELSE IF d.kind = "malformed" THEN warn
        ELSE IF d.kind = "binary" THEN [fresh EXCEPT !.raised = "UnicodeDecodeError"]
        ELSE IF d.kind = "list" THEN [fresh EXCEPT !.expenses = JsonLoad(d.body)]
        ELSE [fresh EXCEPT !.shape = d.kind]

\* ExpenseTracker() followed by run(): a new process constructs the tracker
Start(io) ==
    /\ pc = "off"
    /\ FaultAllowed(io)
    /\ io = "ioerror" => disk.kind # "missing"
    /\ LET r == load_data(disk, io)
           c == [Call("load") EXCEPT !.src = disk.kind,
                                     !.io = IF disk.kind = "missing" THEN "none" ELSE io,
                                     !.msg = r.msg, !.raised = r.raised]
       IN  /\ last' = c
           /\ expenses' = r.expenses
           /\ shape' = r.shape
           /\ pc' = IF r.raised = "" THEN "done" ELSE "off"
           /\ startedEmpty' = (r.raised = "" /\ r.shape = "list" /\ r.expenses = <<>>)
           /\ persistedAtLoad' = IF r.raised = "" THEN Len(DiskRecords(disk)) ELSE 0
    /\ net' = 0
    /\ faults' = Count(io)
    /\ UNCHANGED disk

\* menu choice 1
add_expense(amount_in, desc_in, date_in, category_choice, io) ==
    /\ pc = "menu"
    /\ amount_in \in AmountInputs /\ AcceptedAmount(amount_in)
    /\ desc_in \in DescInputs
    /\ date_in \in DateInputs /\ AcceptedDate(date_in)
    /\ category_choice \in DOMAIN categories
    /\ IF shape # "list"
       THEN io = "ok" /\ Crash(Call("add"), "AttributeError")
       ELSE /\ Len(expenses) < MaxLen
            /\ FaultAllowed(io)
            /\ LET expense == [date |-> get_valid_date(date_in),
                               amount |-> get_valid_amount(amount_in),
                               description |-> Strip(desc_in),
                               category |-> categories[category_choice]]
                   new == ListAppend(expenses, expense)
               IN  /\ expenses' = new
                   /\ disk' = save_data(disk, new, io)
                   /\ last' = [Call("add") EXCEPT
                                 !.io = io, !.msg = "Expense added successfully!"]
            /\ net' = net + 1
            /\ faults' = Count(io)
            /\ pc' = "done"
            /\ UNCHANGED <<shape, startedEmpty, persistedAtLoad>>

\* edit_expense after a field was handled: save_data and the success message
EditSave(new, c, io) ==
    /\ FaultAllowed(io)
    /\ expenses' = new
    /\ disk' = save_data(disk, new, io)
    /\ last' = [c EXCEPT !.io = io, !.msg = "Expense updated successfully!"]
    /\ faults' = Count(io)
    /\ pc' = "done"
    /\ UNCHANGED <<shape, net, startedEmpty, persistedAtLoad>>

\* menu choice 3; entry is the text typed at the prompt for the new value.
\* A prompt the handler does not reach reads nothing: its parameter is then
\* "" (field, entry) and the file is not opened (io = "ok")
edit_expense(idx_in, field, entry, io) ==
    /\ pc = "menu"
    /\ IF ~Truthy
       THEN /\ ~idx_in.num /\ field = "" /\ entry = "" /\ io = "ok"
            /\ Stay([Call("edit") EXCEPT !.msg = "No expenses recorded yet."])
       ELSE IF shape # "list"
       THEN /\ ~idx_in.num /\ field = "" /\ entry = "" /\ io = "ok"
            /\ Crash(Call("edit"), "TypeError")
       ELSE IF ~idx_in.num
       THEN /\ field = "" /\ entry = "" /\ io = "ok"
            /\ Stay([Call("edit") EXCEPT !.msg = "Please enter a valid number."])
       ELSE LET idx == idx_in.val - 1
                c   == [Call("edit") EXCEPT !.read = TRUE, !.idx = idx_in.val,
                                            !.field = field]
            IN  IF ~IndexInRange(idx, Len(expenses))
                THEN /\ field = "" /\ entry = "" /\ io = "ok"
                     /\ Stay([c EXCEPT !.msg = "Invalid expense number."])
                ELSE LET p == PyPos(expenses, idx)
                     IN  IF field = "1"
                         THEN /\ entry \in DateInputs
                              /\ AcceptedDate(entry)
                              /\ EditSave(
                                   [expenses EXCEPT ![p].date = get_valid_date(entry)],
                                   [c EXCEPT !.replaced = "date",
                                             !.newval = get_valid_date(entry)], io)
                         ELSE IF field = "2"
                         THEN /\ entry \in AmountInputs
                              /\ AcceptedAmount(entry)
                              /\ EditSave(
                                   [expenses EXCEPT ![p].amount = get_valid_amount(entry)],
                                   [c EXCEPT !.replaced = "amount",
                                             !.newval = FloatRepr(get_valid_amount(entry))],
                                   io)
                         ELSE IF field = "3"
                         THEN /\ entry \in DescInputs
                              /\ EditSave(
                                   [expenses EXCEPT ![p].description = Strip(entry)],
                                   [c EXCEPT !.replaced = "description",
                                             !.newval = Strip(entry)], io)
                         ELSE IF field = "4"
                         THEN /\ entry \in CategoryInputs
                              /\ IF entry \in DOMAIN categories
                                 THEN EditSave(
                                        [expenses EXCEPT ![p].category = categories[entry]],
                                        [c EXCEPT !.replaced = "category",
                                                  !.newval = categories[entry]], io)
                                 ELSE EditSave(expenses, c, io)
                         ELSE /\ entry = ""
                              /\ IF Lower(field) = "cancel"
                                 THEN io = "ok" /\ Stay(c)
                                 ELSE EditSave(expenses, c, io)

\* menu choice 4 (confirm is "" when the confirmation is not asked for)
delete_expense(idx_in, confirm, io) ==
    /\ pc = "menu"
    /\ IF ~Truthy
       THEN /\ ~idx_in.num /\ confirm = "" /\ io = "ok"
            /\ Stay([Call("delete") EXCEPT !.msg = "No expenses recorded yet."])
       ELSE IF shape # "list"
       THEN /\ ~idx_in.num /\ confirm = "" /\ io = "ok"
            /\ Crash(Call("delete"), "TypeError")
       ELSE IF ~idx_in.num
       THEN /\ confirm = "" /\ io = "ok"
            /\ Stay([Call("delete") EXCEPT !.msg = "Please enter a valid number."])
       ELSE LET idx == idx_in.val - 1
                c   == [Call("delete") EXCEPT !.read = TRUE, !.idx = idx_in.val]
            IN  IF ~IndexInRange(idx, Len(expenses))
                THEN /\ confirm = "" /\ io = "ok"
                     /\ Stay([c EXCEPT !.msg = "Invalid expense number."])
                ELSE IF Lower(confirm) # "y"
                THEN /\ io = "ok"
                     /\ Stay([c EXCEPT !.confirm = confirm])
                ELSE LET new == ListDel(expenses, idx)
                     IN  /\ FaultAllowed(io)
                         /\ expenses' = new
                         /\ disk' = save_data(disk, new, io)
                         /\ last' = [c EXCEPT !.confirm = confirm, !.io = io,
                                              !.msg = "Expense deleted successfully!"]
                         /\ net' = net - 1
                         /\ faults' = Count(io)
                         /\ pc' = "done"
                         /\ UNCHANGED <<shape, startedEmpty, persistedAtLoad>>

\* menu choice 2: view_expenses() with no argument
view_expenses ==
    /\ pc = "menu"
    /\ IF shape = "object"
       THEN Crash(Call("view"), "TypeError")
       ELSE Stay([Call("view") EXCEPT !.shown = Displayed(<<>>), !.msg = ViewMsg(<<>>)])

\* menu choice 5 (start_in, end_in and cat_choice are "" when not asked for)
filter_expenses(choice, start_in, end_in, cat_choice) ==
    /\ pc = "menu"
    /\ LET c == [Call("filter") EXCEPT !.field = choice]
       IN  IF ~Truthy
           THEN /\ choice = "" /\ start_in = "" /\ end_in = "" /\ cat_choice = ""
                /\ Stay([Call("filter") EXCEPT !.msg = "No expenses recorded yet."])
           ELSE IF choice = "1"
           THEN /\ cat_choice = ""
                /\ start_in \in DateInputs /\ AcceptedDate(start_in)
                /\ end_in \in DateInputs /\ AcceptedDate(end_in)
                /\ IF shape # "list"
                   THEN Crash(c, "TypeError")
                   ELSE LET start_date == get_valid_date(start_in)
                            end_date   == get_valid_date(end_in)
                            filtered   == FilterByDate(expenses, start_date, end_date)
                        IN  Stay([c EXCEPT !.a = start_date, !.b = end_date,
                                           !.shown = Displayed(filtered),
                                           !.msg = ViewMsg(filtered)])
           ELSE IF choice = "2"
           THEN /\ start_in = "" /\ end_in = ""
                /\ cat_choice \in CategoryInputs
                /\ IF cat_choice \notin DOMAIN categories
                   THEN Stay([c EXCEPT !.a = cat_choice,
                                       !.msg = "Invalid category selection."])
                   ELSE IF shape # "list"
                   THEN Crash(c, "TypeError")
                   ELSE LET filtered == FilterByCategory(expenses, categories[cat_choice])
                        IN  Stay([c EXCEPT !.a = categories[cat_choice],
                                           !.shown = Displayed(filtered),
                                           !.msg = ViewMsg(filtered)])
           ELSE /\ start_in = "" /\ end_in = "" /\ cat_choice = ""
                /\ Stay(c)

\* menu choice 6
monthly_summary ==
    /\ pc = "menu"
    /\ IF ~Truthy
       THEN Stay([Call("monthly_summary") EXCEPT !.msg = "No expenses recorded yet."])
       ELSE IF shape # "list"
       THEN Crash(Call("monthly_summary"), "TypeError")
       ELSE Stay([Call("monthly_summary") EXCEPT
                    !.msg = "=== Monthly Summary ===",
                    !.summary = SortedMonths(expenses, MonthKeys(expenses))])

\* menu choice 7
category_summary ==
    /\ pc = "menu"
    /\ IF ~Truthy
       THEN Stay([Call("category_summary") EXCEPT !.msg = "No expenses recorded yet."])
       ELSE IF shape # "list"
       THEN Crash(Call("category_summary"), "TypeError")
       ELSE LET total == SumAmounts(expenses)
            IN  IF total = 0
                THEN Crash([Call("category_summary") EXCEPT
                              !.msg = "=== Category-wise Expenditure ==="],
                           "ZeroDivisionError")
                ELSE Stay([Call("category_summary") EXCEPT
                             !.msg = "=== Category-wise Expenditure ===",
                             !.summary = CategoryRows(expenses, total)])

\* menu choice 8: the loop breaks and the process ends
exit ==
    /\ pc = "menu"
    /\ last' = [Call("exit") EXCEPT !.msg = "Thank you for using Expense Tracker!"]
    /\ pc' = "off"
    /\ expenses' = <<>>
    /\ shape' = "list"
    /\ net' = 0
    /\ startedEmpty' = FALSE
    /\ persistedAtLoad' = 0
    /\ UNCHANGED <<disk, faults>>

\* any other menu input
invalid_choice ==
    /\ pc = "menu"
    /\ Stay([Call("menu") EXCEPT
               !.msg = "Invalid choice. Please enter a number between 1-8."])

\* `while True:` of run(): the menu is printed again
menu ==
    /\ pc = "done"
    /\ pc' = "menu"
    /\ last' = NoCall
    /\ UNCHANGED <<disk, expenses, shape, net, startedEmpty,
                   persistedAtLoad, faults>>

\* One step of the program: the inputs typed come from the given sets, the
\* file system's answers from Loads and Saves
Step(Amounts, Descs, Dates, Cats, Entries, Loads, Saves) ==
    \/ \E io \in Loads : Start(io)
    \/ menu
    \/ \E amount_in \in Amounts, desc_in \in Descs, date_in \in Dates,
          category_choice \in Cats, io \in Saves :
            add_expense(amount_in, desc_in, date_in, category_choice, io)
    \/ view_expenses
    \/ \E idx_in \in IndexInputs, field \in FieldInputs, entry \in Entries,
          io \in Saves :
            edit_expense(idx_in, field, entry, io)
    \/ \E idx_in \in IndexInputs, confirm \in ConfirmInputs, io \in Saves :
            delete_expense(idx_in, confirm, io)
    \/ \E choice \in FilterChoices, start_in \in Dates \cup {""},
          end_in \in Dates \cup {""}, cat_choice \in Cats \cup {""} :
            filter_expenses(choice, start_in, end_in, cat_choice)
    \/ monthly_summary
    \/ category_summary
    \/ exit
    \/ invalid_choice

\* every input of the model, on a file system that never fails
Next ==
    Step(AmountInputs, DescInputs, DateInputs, CategoryInputs, EditEntries,
         {"ok"}, {"ok"})

Spec == Init /\ [][Next]_vars

\* a file system that fails up to MaxFaults times, with one date and one
\* category typed
NextIO ==
    Step(AmountInputs, DescInputs, {""}, {"1", "9"},
         AmountInputs \cup DescInputs \cup {"", "9"}, LoadOutcomes, SaveOutcomes)

SpecIO == Init /\ [][NextIO]_vars
-----------------------------------------------------------------------------
(* Properties *)

Updated == "Expense updated successfully!"

Deleted == "Expense deleted successfully!"

\* a handler has just returned (or raised) in this step
Handled(op) == pc = "menu" /\ last'.op = op

\* the text of field f of record r
FieldText(r, f) ==
    IF f = "date" THEN r.date
    ELSE IF f = "amount" THEN FloatRepr(r.amount)
    ELSE IF f = "description" THEN r.description
    ELSE r.category

\* C1: after an add_expense, edit_expense or confirmed delete_expense whose
\* file write succeeded, the file parses to a record list equal to
\* self.expenses.
C1_PersistedEqualsMemory ==
    (pc = "done" /\ last.op \in {"add", "edit", "delete"} /\ last.io = "ok")
        => (disk.kind = "list" /\ JsonLoad(disk.body) = expenses)

\* C1 happens: a save succeeds after an earlier I/O failure, on two records
C1_Witness ==
    /\ pc = "done" /\ last.op = "edit" /\ last.replaced = "amount"
    /\ last.io = "ok" /\ faults = 1 /\ Len(expenses) = 2

\* C2: a date-range filter presents exactly the records r with
\* start <= r.date <= end, in store order (nothing when none matches).
C2_FilterShowsExactlyMatches ==
    (pc = "done" /\ last.op = "filter" /\ last.field = "1")
        => last.shown = SelectSeq(expenses,
                          LAMBDA r : StrLeq(last.a, r.date) /\ StrLeq(r.date, last.b))

\* C3: load_data never raises, and on a missing, unreadable, malformed,
\* undecodable or non-list file it leaves self.expenses an empty list.
C3_LoadFallsBackToEmpty ==
    last.op = "load"
        => /\ last.raised = ""
           /\ (last.src # "list" \/ last.io = "ioerror")
                 => (shape = "list" /\ expenses = <<>>)

\* C4: in a process that started from an empty store, every stored amount
\* is strictly greater than 0.
C4_StoredAmountsPositive ==
    (pc # "off" /\ startedEmpty)
        => \A i \in 1..Len(expenses) : expenses[i].amount > 0

\* C5: category_summary never divides by zero.
C5_NoDivisionByZero ==
    last.op = "category_summary" => last.raised # "ZeroDivisionError"

\* C6: edit_expense and delete_expense given an index outside [1, count], or
\* called on an empty store, leave the collection and the file as they were,
\* do not call save_data, do not raise, and print an error message.
C6_InvalidIndexNoEffect ==
    [][ ( /\ (Handled("edit") \/ Handled("delete"))
          /\ \/ (shape = "list" /\ expenses = <<>>)
             \/ (last'.read /\ (last'.idx < 1 \/ last'.idx > Len(expenses))) )
        => /\ expenses' = expenses
           /\ shape' = shape
           /\ disk' = disk
           /\ last'.io = "none"
           /\ last'.raised = ""
           /\ pc' = "done"
           /\ last'.msg \in {"Invalid expense number.", "No expenses recorded yet."}
      ]_vars

\* C6 happens: an index one past the end was refused on a non-empty store
C6_Witness ==
    /\ pc = "done" /\ last.op = "edit" /\ last.read
    /\ expenses # <<>> /\ last.idx = Len(expenses) + 1
    /\ last.msg = "Invalid expense number."

\* C7: edit_expense with a valid index keeps the count, the order and every
\* other record; when it reports success exactly one of date, amount,
\* description, category of that record holds the newly entered validated
\* value, the other fields are unchanged, and the collection was saved.
C7_EditReplacesOneField ==
    [][ (Handled("edit") /\ last'.read /\ last'.idx \in 1..Len(expenses))
        => /\ Len(expenses') = Len(expenses)
           /\ \A j \in 1..Len(expenses) :
                 j # last'.idx => expenses'[j] = expenses[j]
           /\ last'.msg = Updated
                 => /\ last'.replaced \in {"date", "amount", "description", "category"}
                    /\ FieldText(expenses'[last'.idx], last'.replaced) = last'.newval
                    /\ \A f \in {"date", "amount", "description", "category"} :
                          f # last'.replaced
                             => FieldText(expenses'[last'.idx], f)
                                  = FieldText(expenses[last'.idx], f)
                    /\ last'.io # "none"
      ]_vars

\* C8: delete_expense with a valid index i removes exactly record i when
\* confirmed (the records before i stay, those after i move down by one);
\* unconfirmed, it leaves the collection and the file unchanged.
C8_DeleteRemovesExactlyOne ==
    [][ (Handled("delete") /\ last'.read /\ last'.idx \in 1..Len(expenses))
        => IF last'.confirm \in {"y", "Y"}
           THEN /\ Len(expenses') = Len(expenses) - 1
                /\ \A j \in 1..(last'.idx - 1) : expenses'[j] = expenses[j]
                /\ \A j \in (last'.idx + 1)..Len(expenses) :
                      expenses'[j - 1] = expenses[j]
           ELSE expenses' = expenses /\ disk' = disk
      ]_vars

\* C8 happens: the first of two records was deleted and the second moved down
C8_Witness ==
    /\ pc = "done" /\ last.op = "delete" /\ last.msg = Deleted
    /\ last.idx = 1 /\ Len(expenses) = 1

\* l with the record at position i left out
Without(l, i) == [j \in 1..(Len(l) - 1) |-> IF j < i THEN l[j] ELSE l[j + 1]]

\* C9: in a process that started from an empty store the count is adds
\* minus deletes, and every handler keeps the records in insertion order:
\* add_expense appends one record after the others (no dedup, no merge),
\* delete_expense leaves one out, edit_expense keeps every position, and
\* view_expenses shows the collection as it is.
C9_InsertionOrder ==
    [][ (startedEmpty /\ pc = "menu" /\ pc' = "done")
        => /\ Len(expenses') = net'
           /\ last'.op = "add"
                 => /\ Len(expenses') = Len(expenses) + 1
                    /\ SubSeq(expenses', 1, Len(expenses)) = expenses
           /\ last'.op = "delete"
                 => \/ expenses' = expenses
                    \/ \E i \in 1..Len(expenses) : expenses' = Without(expenses, i)
           /\ last'.op = "edit" => Len(expenses') = Len(expenses)
           /\ last'.op \notin {"add", "delete", "edit"} => expenses' = expenses
           /\ last'.op = "view" => last'.shown = expenses'
      ]_vars

\* C9 happens: after two adds and one delete one record is left
C9_Witness ==
    /\ startedEmpty /\ pc = "done" /\ last.op = "delete" /\ last.msg = Deleted
    /\ Len(expenses) = 1 /\ net = 1

\* C10: after a successful save the file holds at least the records it held
\* when the process loaded it, plus the adds, minus the confirmed deletes:
\* a record on disk goes away only through a confirmed delete (in
\* particular not through a load that fell back to an empty collection).
C10_NoLossWithoutFailedSave ==
    (pc = "done" /\ last.op \in {"add", "edit", "delete"} /\ last.io = "ok")
        => Len(DiskRecords(disk)) >= persistedAtLoad + net

=============================================================================
